---- MODULE Spec2Model ----
(***************************************************************************)
(* A model of coursemology_py's authentication and session component:      *)
(* the PKCE login flow of CoursemologyAuthenticator.get_api_session, the   *)
(* token bookkeeping of OIDCTokens / OIDCBearerAuth, the 401 retry of       *)
(* CoursemologySession.request and the login guard of CoursemologyClient.  *)
(*                                                                         *)
(* Strings that the code inspects piecewise (URLs, base64 text) are         *)
(* sequences of pieces; everything the network answers is an input chosen   *)
(* by the environment from a small set.                                     *)
(***************************************************************************)
EXTENDS Integers, Sequences, FiniteSets, TLC

VARIABLES
    now,        \* time.time(), in whole seconds
    issued,     \* number of token responses the token endpoint has issued
    session,    \* CoursemologyClient._session
    handlers,   \* CoursemologyClient._jobs / _courses, the cached handlers
    login,      \* the activation of get_api_session: position, locals, messages
    api_session,\* get_api_session's local api_session while it is being built
    req,        \* the activation of CoursemologySession.request
    last,       \* the outcome of the client's last call
    pkce,       \* the last result of _make_pkce_pair (SpecPkce only)
    resp,       \* the activation of BaseAPI._handle_response (SpecResponse only)
    wait,       \* the activation of JobsAPI.wait_for_completion (SpecJobs only)
    form,       \* the activation of build_form_data (SpecForm only)
    apicall     \* the activation of BaseAPI._request up to its send (SpecRequest only)

\* the activations of the helpers that are studied on their own
helpers == <<resp, wait, form, apicall>>

vars == <<now, issued, session, handlers, login, api_session, req, last, pkce,
          resp, wait, form, apicall>>

----------------------------------------------------------------------------
(* Bounds of the model *)

\* the clock stops advancing here
MaxTime == 3
\* the token endpoint issues at most this many token responses
MaxIssued == 4
\* number of distinct os.urandom outcomes explored by SpecPkce
MaxSeeds == 120

\* the longest timeout and poll interval given to wait_for_completion
MaxTimeout == 3
MaxPollInterval == 2

\* fetches that take no measurable time are counted up to here
MaxPolls == 3

(* Program constants *)

\* auth.py:35, the safety margin of expires_at
ExpiryMargin == 60
\* auth.py:50, os.urandom(64)
VerifierBytes == 64
\* hashlib.sha256 digests are 32 bytes
DigestBytes == 32

----------------------------------------------------------------------------
(* base64 / PKCE (auth.py:43-52) *)

\* the URL-safe base64 alphabet of base64.urlsafe_b64encode
B64Alphabet ==
    << "A","B","C","D","E","F","G","H","I","J","K","L","M",
       "N","O","P","Q","R","S","T","U","V","W","X","Y","Z",
       "a","b","c","d","e","f","g","h","i","j","k","l","m",
       "n","o","p","q","r","s","t","u","v","w","x","y","z",
       "0","1","2","3","4","5","6","7","8","9","-","_" >>

B64Char(n) == B64Alphabet[n + 1]

\* base64.urlsafe_b64encode: every 3 bytes give 4 characters of 6 bits each;
\* a last group of 1 or 2 bytes is filled with zero bits and padded with "="
urlsafe_b64encode(b) ==
    LET n == Len(b)
        Byte(i) == IF i <= n THEN b[i] ELSE 0
        Char(p) ==
            LET g  == (p - 1) \div 4
                j  == (p - 1) % 4
                b1 == Byte(3 * g + 1)
                b2 == Byte(3 * g + 2)
                b3 == Byte(3 * g + 3)
            IN  IF j = 0 THEN B64Char(b1 \div 4)
                ELSE IF j = 1 THEN B64Char((b1 % 4) * 16 + (b2 \div 16))
                ELSE IF j = 2 THEN
                    IF 3 * g + 2 > n THEN "="
                    ELSE B64Char((b2 % 16) * 4 + (b3 \div 64))
                ELSE
                    IF 3 * g + 3 > n THEN "=" ELSE B64Char(b3 % 64)
    IN [p \in 1..(4 * ((n + 2) \div 3)) |-> Char(p)]

\* str.rstrip("="): everything up to the last character that is not "="
rstrip_eq(s) ==
    LET keep == CHOOSE k \in 0..Len(s) :
                    /\ \A i \in (k + 1)..Len(s) : s[i] = "="
                    /\ k > 0 => s[k] # "="
    IN SubSeq(s, 1, keep)

\* _b64url_no_padding
b64url_no_padding(b) == rstrip_eq(urlsafe_b64encode(b))

\* index of a character in the alphabet, 0..63
B64Index(c) == CHOOSE n \in 0..63 : B64Alphabet[n + 1] = c

\* str.encode("ascii") on base64url text: the code point of each character
AsciiCode(c) ==
    LET n == B64Index(c) IN
    IF n < 26 THEN 65 + n
    ELSE IF n < 52 THEN 97 + (n - 26)
    ELSE IF n < 62 THEN 48 + (n - 52)
    ELSE IF n = 62 THEN 45 ELSE 95

encode_ascii(s) == [i \in 1..Len(s) |-> AsciiCode(s[i])]

\* hashlib.sha256(m).digest(): a library primitive.  The model keeps its
\* interface (bytes in, a 32-byte digest out, deterministic, sensitive to every
\* byte and to its position) and not its arithmetic.
RECURSIVE MixBytes(_, _, _)
MixBytes(m, lo, hi) ==
    IF lo > hi THEN 0
    ELSE IF lo = hi THEN (m[lo] + 1) * (lo * lo + 7)
    ELSE LET mid == (lo + hi) \div 2
         IN (MixBytes(m, lo, mid) + MixBytes(m, mid + 1, hi)) % 65521

sha256_digest(m) ==
    LET h == MixBytes(m, 1, Len(m)) + Len(m) IN
    [k \in 1..DigestBytes |-> (h + k * ((h % 251) + 1) + (h \div 256) * (k + 3)) % 256]

\* a plausible slip: the challenge is derived from the raw random bytes
make_pkce_pair_raw(rnd) ==
    [verifier  |-> b64url_no_padding(rnd),
     challenge |-> b64url_no_padding(sha256_digest(rnd))]

\* _make_pkce_pair, with os.urandom's result as its input
make_pkce_pair(rnd) ==
    LET verifier == b64url_no_padding(rnd) IN
    [verifier  |-> verifier,
     challenge |-> b64url_no_padding(sha256_digest(encode_ascii(verifier)))]

----------------------------------------------------------------------------
(* OIDCTokens and OIDCBearerAuth (auth.py:16-96) *)

\* the lifetimes the token endpoint may grant, around the safety margin
ExpiresIn == {ExpiryMargin, ExpiryMargin + 1, ExpiryMargin + 2}

\* OIDCTokens.expires_at
expires_at(tokens) == tokens.obtained_at + tokens.expires_in - ExpiryMargin

\* a plausible slip: the boundary instant is not yet counted as expired
is_expired_strict(tokens, t) == t > expires_at(tokens)

\* OIDCTokens.is_expired, with time.time() as t
is_expired(tokens, t) == t >= expires_at(tokens)

\* Response.raise_for_status raises HTTPError for 4xx and 5xx
raises_for_status(status) == 400 <= status /\ status < 600

\* what the token endpoint may answer to the next grant: a fresh token pair
\* (numbered by the response that carries it) or a refusal
FailedGrant == [status |-> 400, access_token |-> 0, refresh_token |-> 0, expires_in |-> 0]

TokenAnswers ==
    {[status |-> 200, access_token |-> issued + 1, refresh_token |-> 100 + issued + 1,
      expires_in |-> e] : e \in IF issued < MaxIssued THEN ExpiresIn ELSE {}}
    \cup {FailedGrant}

\* OIDCTokens.model_validate(r.json()); obtained_at defaults to time.time()
model_validate(answer, t) ==
    [access_token  |-> answer.access_token,
     refresh_token |-> answer.refresh_token,
     expires_in    |-> answer.expires_in,
     obtained_at   |-> t]

\* the form OIDCBearerAuth.refresh_tokens posts to the token endpoint
refresh_grant(tokens) ==
    [grant_type |-> "refresh_token", refresh_token |-> tokens.refresh_token]

\* a plausible slip: the token response is read but self.tokens is not replaced
refresh_tokens_discard(tokens, answer, t) ==
    [raised |-> raises_for_status(answer.status), tokens |-> tokens]

\* a plausible slip: the new access token is stored beside the old refresh token
refresh_tokens_mixed(tokens, answer, t) ==
    IF raises_for_status(answer.status)
    THEN [raised |-> TRUE, tokens |-> tokens]
    ELSE [raised |-> FALSE,
          tokens |-> [model_validate(answer, t) EXCEPT
                        !.refresh_token = tokens.refresh_token]]

\* OIDCBearerAuth.refresh_tokens: the tokens it leaves in self.tokens, and
\* whether raise_for_status raised
refresh_tokens(tokens, answer, t) ==
    IF raises_for_status(answer.status)
    THEN [raised |-> TRUE, tokens |-> tokens]
    ELSE [raised |-> FALSE, tokens |-> model_validate(answer, t)]

\* a plausible slip: the other token of the pair is attached
Bearer_refresh_token(tokens) == tokens.refresh_token

\* the value of the Authorization header, "Bearer <access_token>"
Bearer(tokens) == tokens.access_token

----------------------------------------------------------------------------
(* Sessions and the activation record of CoursemologySession.request *)

None == [kind |-> "None"]

NewSession(tokens) ==
    [kind |-> "CoursemologySession",
     auth |-> [kind |-> "OIDCBearerAuth", tokens |-> tokens],
     csrf_token |-> "unset"]

NoResult == [kind |-> "none", status |-> 0]
Response(status) == [kind |-> "response", status |-> status]
Raised(exc) == [kind |-> exc, status |-> 0]

ReqIdle ==
    [pc |-> "idle", caller |-> "none", method |-> "GET", headers |-> << >>,
     n |-> 0, Authorization |-> 0, log |-> << >>, result |-> NoResult]

\* entries of req.log, the record of what one call of request did
AuthEv(expired, stored) ==
    [e |-> "auth", expired |-> expired, trigger |-> "", presented |-> 0,
     ok |-> TRUE, token |-> stored, status |-> 0]
RefreshEv(trigger, grant, answer) ==
    [e |-> "refresh", expired |-> FALSE, trigger |-> trigger,
     presented |-> grant.refresh_token, ok |-> ~raises_for_status(answer.status),
     token |-> answer.access_token, status |-> answer.status]
SendEv(header, status) ==
    [e |-> "send", expired |-> FALSE, trigger |-> "", presented |-> 0,
     ok |-> TRUE, token |-> header, status |-> status]

\* the statuses the API host may answer with
ApiStatuses == {200, 401, 500}

\* the session a running request belongs to: the one get_api_session is
\* building while it fetches the CSRF token, else the client's
InLoginCsrf == login.pc = "csrf"
Target == IF InLoginCsrf THEN api_session ELSE session

SetTargetTokens(tk) ==
    IF InLoginCsrf
    THEN api_session' = [api_session EXCEPT !.auth.tokens = tk] /\ UNCHANGED session
    ELSE session' = [session EXCEPT !.auth.tokens = tk] /\ UNCHANGED api_session

\* a plausible slip: the 401 is handed back without a retry
should_retry_never(status, auth) == FALSE

\* auth.py:114-117, the condition of the retry
should_retry(status, auth) == status = 401 /\ auth.kind = "OIDCBearerAuth"

\* the first lines of request: super().request(...) is entered
BeginRequest(caller) ==
    [pc |-> "authorize", caller |-> caller, method |-> "GET", headers |-> << >>,
     n |-> 1, Authorization |-> 0, log |-> << >>, result |-> NoResult]

\* OIDCBearerAuth.__call__, run by super().request while it prepares the
\* request: refresh first when the token is expired, then set the header
Authorize(answer) ==
    /\ req.pc = "authorize"
    /\ LET tk  == Target.auth.tokens
           exp == is_expired(tk, now)
           out == refresh_tokens(tk, answer, now)
           ev  == AuthEv(exp, tk.access_token)
       IN
       IF ~exp THEN
            /\ req' = [req EXCEPT !.pc = "send", !.Authorization = Bearer(tk),
                                  !.log = Append(@, ev)]
            /\ UNCHANGED <<issued, session, api_session>>
       ELSE IF out.raised THEN
            /\ req' = [req EXCEPT !.pc = "returned", !.result = Raised("HTTPError"),
                                  !.log = @ \o <<ev, RefreshEv("expired", refresh_grant(tk), answer)>>]
            /\ UNCHANGED <<issued, session, api_session>>
       ELSE
            /\ req' = [req EXCEPT !.pc = "send", !.Authorization = Bearer(out.tokens),
                                  !.log = @ \o <<ev, RefreshEv("expired", refresh_grant(tk), answer)>>]
            /\ issued' = issued + 1
            /\ SetTargetTokens(out.tokens)
    /\ UNCHANGED <<now, handlers, login, last, pkce, helpers>>

\* super().request sends the prepared request and the response arrives;
\* auth.py:112-123 decides between returning it and the retry
Send(status) ==
    /\ req.pc = "send"
    /\ LET ev == SendEv(req.Authorization, status) IN
       IF req.n = 1 /\ should_retry(status, Target.auth)
       THEN req' = [req EXCEPT !.pc = "refresh401", !.log = Append(@, ev)]
       ELSE req' = [req EXCEPT !.pc = "returned", !.result = Response(status),
                               !.log = Append(@, ev)]
    /\ UNCHANGED <<now, issued, session, handlers, login, api_session, last, pkce, helpers>>

\* auth.py:118-121: self.auth.refresh_tokens(), then the second super().request
Refresh401(answer) ==
    /\ req.pc = "refresh401"
    /\ LET tk  == Target.auth.tokens
           out == refresh_tokens(tk, answer, now)
           ev  == RefreshEv("401", refresh_grant(tk), answer)
       IN
       IF out.raised THEN
            /\ req' = [req EXCEPT !.pc = "returned", !.result = Raised("HTTPError"),
                                  !.log = Append(@, ev)]
            /\ UNCHANGED <<issued, session, api_session>>
       ELSE
            /\ req' = [req EXCEPT !.pc = "authorize", !.n = 2, !.log = Append(@, ev)]
            /\ issued' = issued + 1
            /\ SetTargetTokens(out.tokens)
    /\ UNCHANGED <<now, handlers, login, last, pkce, helpers>>

\* time passes between any two steps
Tick ==
    /\ now < MaxTime
    /\ now' = now + 1
    /\ UNCHANGED <<issued, session, handlers, login, api_session, req, last, pkce, helpers>>

----------------------------------------------------------------------------
(* URLs (auth.py:132-144, 196-203); a URL is the sequence of its pieces *)

\* CoursemologyClient passes its host as the redirect URI (client.py:29)
redirect_uri == << "https://", "coursemology.org" >>
issuer == << "https://", "auth.coursemology.org", "/realms/coursemology" >>
auth_endpoint == issuer \o << "/protocol/openid-connect/auth" >>
token_endpoint == issuer \o << "/protocol/openid-connect/token" >>

\* str.startswith
startswith(s, prefix) ==
    Len(s) >= Len(prefix) /\ SubSeq(s, 1, Len(prefix)) = prefix

\* the pieces that end the network location of a URL
Delimiters == {"/", "?", "#"}

\* positions of the first delimiter and of the "?" of a URL (Len + 1 if none)
FirstAt(s, set) ==
    IF \E i \in 1..Len(s) : s[i] \in set
    THEN CHOOSE i \in 1..Len(s) : s[i] \in set /\ \A j \in 1..(i - 1) : s[j] \notin set
    ELSE Len(s) + 1

\* urllib.parse.urlparse: scheme, netloc and query of a URL
urlparse(url) ==
    [scheme |-> IF Len(url) > 0 THEN url[1] ELSE "",
     netloc |-> SubSeq(url, 2, FirstAt(url, Delimiters) - 1),
     query  |-> SubSeq(url, FirstAt(url, {"?"}) + 1, FirstAt(url, {"#"}) - 1)]

\* the query parameters the identity provider may put into the redirect;
\* consecutive parameters are joined by "&"
QueryParam ==
    ("code=c1"  :> [k |-> "code",  v |-> "c1"]) @@
    ("code=c2"  :> [k |-> "code",  v |-> "c2"]) @@
    ("code="    :> [k |-> "code",  v |-> ""]) @@
    ("state=s1" :> [k |-> "state", v |-> "s1"]) @@
    ("state=s2" :> [k |-> "state", v |-> "s2"])

\* Python's None where a string is expected
NoneStr == "<None>"

\* urllib.parse.parse_qs(query).get(key, [None])[0]: blank values are dropped
\* (keep_blank_values is off) and the first value of the key is taken
first_value(query, key) ==
    LET hits == SelectSeq(query, LAMBDA p : QueryParam[p].k = key /\ QueryParam[p].v # "")
    IN IF Len(hits) = 0 THEN NoneStr ELSE QueryParam[hits[1]].v

----------------------------------------------------------------------------
(* What the identity provider may answer during a login *)

\* os.urandom(64) outcomes explored by the login flow
Urandom ==
    { [i \in 1..VerifierBytes |-> (i * 7) % 256],
      [i \in 1..VerifierBytes |-> 255 - ((i * 3) % 256)] }

\* the PKCE pairs _make_pkce_pair may return to the login flow
PkcePairs == { make_pkce_pair(rnd) : rnd \in Urandom }

\* secrets.token_bytes(16), base64url-encoded: an opaque random word
StateNonces == {"s1", "s2"}

\* the login page: its status and whether the HTML names a loginAction
PageAnswers == [status : {200, 500}, loginAction : BOOLEAN]

Queries ==
    { << >>, << "code=c1" >>, << "state=s1" >>, << "state=s2" >>,
      << "code=c1", "state=s1" >>, << "code=c1", "state=s2" >>,
      << "state=s1", "code=c2" >>, << "code=", "state=s1" >>,
      << "code=", "state=s2" >> }

\* Location headers: none, the redirect URI itself with a path or a query
\* after it, a host that merely begins with the redirect URI's text, another
\* host, and another scheme
Locations ==
    { << >> }
    \cup { redirect_uri \o << "?" >> \o q : q \in Queries }
    \cup { redirect_uri \o << "/", "?" >> \o q : q \in Queries }
    \cup { redirect_uri \o << ".evil.example", "/", "?" >> \o q : q \in Queries }
    \cup { << "https://", "evil.example", "/", "?" >> \o q : q \in Queries }
    \cup { << "http://", "coursemology.org", "/", "?" >> \o q : q \in Queries }

\* answers to the credentials POST
PostAnswers ==
    [status : {302, 303}, loginAction : {FALSE}, location : Locations]
    \cup [status : {200, 301, 400}, loginAction : BOOLEAN,
          location : { << >>, redirect_uri \o << "?", "code=c1", "state=s1" >>,
                       redirect_uri \o << "?", "code=c1", "state=s2" >> }]

\* the csrfToken of the body of GET /csrf_token
CsrfTokens == {"csrf-A", ""}

----------------------------------------------------------------------------
(* CoursemologyAuthenticator.get_api_session (auth.py:159-223) *)

NoAuthRequest ==
    [endpoint |-> << >>, response_type |-> "", state |-> "",
     code_challenge |-> << >>, code_challenge_method |-> ""]
NoPostAnswer == [status |-> 0, loginAction |-> FALSE, location |-> << >>]
NoExchange ==
    [endpoint |-> << >>, grant_type |-> "", code |-> "", code_verifier |-> << >>]

LoginIdle ==
    [pc |-> "idle", code_verifier |-> << >>, code_challenge |-> << >>,
     state |-> "", code |-> "", log |-> << >>, authReq |-> NoAuthRequest,
     postAnswer |-> NoPostAnswer, exchange |-> NoExchange]

\* auth.py:170-179, the parameters of the authorization request
authorization_params(state, code_challenge) ==
    [endpoint |-> auth_endpoint, response_type |-> "code", state |-> state,
     code_challenge |-> code_challenge, code_challenge_method |-> "S256"]

\* a plausible slip: the challenge is sent where the verifier belongs
exchange_data_challenge(code, code_verifier, code_challenge) ==
    [endpoint |-> token_endpoint, grant_type |-> "authorization_code",
     code |-> code, code_verifier |-> code_challenge]

\* _exchange_code_for_tokens, the form posted to the token endpoint
exchange_data(code, code_verifier, code_challenge) ==
    [endpoint |-> token_endpoint, grant_type |-> "authorization_code",
     code |-> code, code_verifier |-> code_verifier]

\* a plausible slip: every 3xx is taken for the redirect
is_redirect_status_any3xx(status) == 300 <= status /\ status < 400

\* auth.py:190
is_redirect_status(status) == status \in {302, 303}

\* auth.py:197, the test of the Location header
location_accepted(location) ==
    location # << >> /\ startswith(location, redirect_uri)

\* a plausible slip: the returned state is not compared
code_and_state_ok_nostate(code, returned_state, state) == code # NoneStr /\ code # ""

\* auth.py:205, negated
code_and_state_ok(code, returned_state, state) ==
    code # NoneStr /\ code # "" /\ returned_state = state

\* auth.py:190-206: what the answer to the credentials POST leads to, the
\* exception raised ("" if none) and the code read from the redirect
credentials_outcome(answer, state) ==
    LET query == urlparse(answer.location).query
        code == first_value(query, "code")
        returned_state == first_value(query, "state")
    IN
    IF ~is_redirect_status(answer.status) THEN
        [raised |-> IF answer.loginAction THEN "RuntimeError"
                    ELSE IF raises_for_status(answer.status) THEN "HTTPError"
                    ELSE "RuntimeError",
         code |-> ""]
    ELSE IF ~location_accepted(answer.location) THEN
        [raised |-> "RuntimeError", code |-> ""]
    ELSE IF ~code_and_state_ok(code, returned_state, state) THEN
        [raised |-> "RuntimeError", code |-> ""]
    ELSE [raised |-> "", code |-> code]

\* no call of the client is running
Quiet == login.pc = "idle" /\ req.pc = "idle"

\* the outcome of the client's last call: which call, and the exception it
\* raised ("" if it returned, "running" while it has not ended)
NoCall == [op |-> "none", raised |-> ""]
Ended(op, exc) == [op |-> op, raised |-> exc]

\* client.login enters get_api_session: auth.py:164-186, the PKCE pair and
\* the state are drawn, the login page is fetched and its loginAction read
GetLoginPage(pair, st, answer) ==
    /\ Quiet
    /\ LET started == [LoginIdle EXCEPT
                        !.code_verifier = pair.verifier,
                        !.code_challenge = pair.challenge,
                        !.state = st,
                        !.log = << "auth_page" >>,
                        !.authReq = authorization_params(st, pair.challenge)]
       IN
       IF raises_for_status(answer.status) THEN
            login' = started /\ last' = Ended("login", "HTTPError")
       ELSE IF ~answer.loginAction THEN
            login' = started /\ last' = Ended("login", "RuntimeError")
       ELSE
            /\ login' = [started EXCEPT !.pc = "post_credentials"]
            /\ last' = Ended("login", "running")
    /\ api_session' = None
    /\ req' = ReqIdle
    /\ UNCHANGED <<now, issued, session, handlers, pkce, helpers>>

\* auth.py:187-206: the credentials are posted and the answer is examined
PostCredentials(answer) ==
    /\ login.pc = "post_credentials"
    /\ LET out == credentials_outcome(answer, login.state)
           seen == [login EXCEPT !.log = Append(@, "credentials_post"),
                                 !.postAnswer = answer]
       IN
       IF out.raised # "" THEN
            /\ login' = [seen EXCEPT !.pc = "idle"]
            /\ last' = Ended("login", out.raised)
       ELSE
            /\ login' = [seen EXCEPT !.pc = "exchange", !.code = out.code]
            /\ UNCHANGED last
    /\ UNCHANGED <<now, issued, session, handlers, api_session, req, pkce, helpers>>

\* auth.py:209-219: the code is exchanged, the API session is built and the
\* GET of the CSRF token enters CoursemologySession.request
ExchangeCode(answer) ==
    /\ login.pc = "exchange"
    /\ LET sent == [login EXCEPT
                      !.log = Append(@, "token_exchange"),
                      !.exchange = exchange_data(login.code, login.code_verifier,
                                                 login.code_challenge)]
       IN
       IF raises_for_status(answer.status) THEN
            /\ login' = [sent EXCEPT !.pc = "idle"]
            /\ last' = Ended("login", "HTTPError")
            /\ UNCHANGED <<issued, api_session, req>>
       ELSE
            /\ login' = [sent EXCEPT !.pc = "csrf", !.log = Append(@, "csrf_fetch")]
            /\ issued' = issued + 1
            /\ api_session' = NewSession(model_validate(answer, now))
            /\ req' = BeginRequest("login")
            /\ UNCHANGED last
    /\ UNCHANGED <<now, session, handlers, pkce, helpers>>

\* a plausible slip: the answer to the CSRF fetch is not examined
FinishLogin_unchecked(csrf) ==
    /\ login.pc = "csrf"
    /\ req.pc = "returned"
    /\ req' = [req EXCEPT !.pc = "idle"]
    /\ login' = [login EXCEPT !.pc = "idle"]
    /\ last' = Ended("login", "")
    /\ session' = [api_session EXCEPT !.csrf_token = csrf]
    /\ api_session' = None
    /\ UNCHANGED <<now, issued, handlers, pkce, helpers>>

\* auth.py:220-223 and client.py:46: the CSRF token is stored and the session
\* is handed to the client; an exception leaves the client as it was
FinishLogin(csrf) ==
    /\ login.pc = "csrf"
    /\ req.pc = "returned"
    /\ req' = [req EXCEPT !.pc = "idle"]
    /\ login' = [login EXCEPT !.pc = "idle"]
    /\ IF req.result.kind # "response" THEN
            /\ last' = Ended("login", req.result.kind)
            /\ UNCHANGED session
       ELSE IF raises_for_status(req.result.status) THEN
            /\ last' = Ended("login", "HTTPError")
            /\ UNCHANGED session
       ELSE
            /\ last' = Ended("login", "")
            /\ session' = [api_session EXCEPT !.csrf_token = csrf]
    /\ api_session' = None
    /\ UNCHANGED <<now, issued, handlers, pkce, helpers>>

----------------------------------------------------------------------------
(* BaseAPI._handle_response (base.py:43-82) and the exceptions it raises *)

\* exceptions.py: the classes derived from CoursemologyAPIError
CoursemologyAPIErrors ==
    {"CoursemologyAPIError", "APIError", "ClientError", "ServerError",
     "NonJSONResponseError"}

\* a key that a JSON object does not have
Absent == "<absent>"

\* values of the 'errors' and 'error' keys of a JSON object: no such key,
\* null, an empty list, and two messages
ErrVals == {Absent, NoneStr, "[]", "E1", "E2"}

\* response_model: none, or the model the caller expects
NoModel == "<NoModel>"
ResponseModels == {NoModel, "Job"}

\* response bodies: empty, text that is not JSON, a JSON array, and JSON
\* objects with their 'errors' and 'error' keys and the model their shape fits
Body(kind, errors, error, shape) ==
    [kind |-> kind, errors |-> errors, error |-> error, shape |-> shape]

Bodies ==
    { Body(k, Absent, Absent, "") : k \in {"empty", "text", "array"} }
    \cup { Body("object", a, b, sh) : a \in ErrVals, b \in ErrVals, sh \in {"Job", "Other"} }

\* Python truthiness of a JSON value
truthy(v) == v \notin {NoneStr, "[]", ""}

\* dict.get(key) on a key holding v
dict_get(v) == IF v = Absent THEN NoneStr ELSE v

\* response.json() returns (it raises JSONDecodeError on an empty body too)
json_decodes(body) == body.kind \in {"object", "array"}

\* a plausible slip: only the 'errors' key is read
api_errors_of_errors_only(body) ==
    IF body.kind = "object" THEN dict_get(body.errors) ELSE NoneStr

\* base.py:50-55: error_json.get("errors") or error_json.get("error"); a body
\* that is not JSON or not an object leaves None
api_errors_of(body) ==
    IF body.kind = "object"
    THEN IF truthy(dict_get(body.errors)) THEN dict_get(body.errors)
         ELSE dict_get(body.error)
    ELSE NoneStr

\* TypeAdapter(response_model).validate_python(json_data) accepts the data
validates(model, body) == body.kind = "object" /\ body.shape = model

\* what _handle_response ends with: the exception raised ("" if it returned)
\* with its status_code and api_errors, or the value returned
Outcome(raised, status_code, api_errors, value) ==
    [raised |-> raised, status_code |-> status_code, api_errors |-> api_errors,
     value |-> value]
ReturnedNone == [kind |-> "None", model |-> "", body |-> Body("empty", Absent, Absent, "")]
ReturnedJson(body) == [kind |-> "json", model |-> "", body |-> body]
ReturnedModel(model, body) == [kind |-> "model", model |-> model, body |-> body]

\* a plausible slip: a body that is not JSON is handed back as it is
handle_response_lenient(status, body, model) ==
    IF raises_for_status(status)
    THEN Outcome("ClientError", status, api_errors_of(body), ReturnedNone)
    ELSE Outcome("", 0, NoneStr, ReturnedJson(body))

\* BaseAPI._handle_response
handle_response(status, body, model) ==
    IF raises_for_status(status) THEN
        Outcome(IF 400 <= status /\ status < 500 THEN "ClientError"
                ELSE IF 500 <= status /\ status < 600 THEN "ServerError"
                ELSE "APIError",
                status, api_errors_of(body), ReturnedNone)
    ELSE IF body.kind = "empty" THEN Outcome("", 0, NoneStr, ReturnedNone)
    ELSE IF ~json_decodes(body) THEN
        Outcome("NonJSONResponseError", status, NoneStr, ReturnedNone)
    ELSE IF model # NoModel THEN
        IF validates(model, body)
        THEN Outcome("", 0, NoneStr, ReturnedModel(model, body))
        ELSE Outcome("ValidationError", 0, NoneStr, ReturnedNone)
    ELSE Outcome("", 0, NoneStr, ReturnedJson(body))

NoOutcome == Outcome("running", 0, NoneStr, ReturnedNone)

RespIdle ==
    [pc |-> "idle", status |-> 0, body |-> Body("empty", Absent, Absent, ""),
     model |-> NoModel, out |-> NoOutcome]

\* _handle_response runs on the response it was given
HandleResponse ==
    /\ resp.pc = "called"
    /\ resp' = [resp EXCEPT !.pc = "done",
                            !.out = handle_response(resp.status, resp.body, resp.model)]
    /\ UNCHANGED <<now, issued, session, handlers, login, api_session, req, last,
                   pkce, wait, form, apicall>>

----------------------------------------------------------------------------
(* CoursemologyClient (client.py:36-119) and a handler's request *)

\* a plausible slip: the guard is dropped
not_logged_in_never(s) == FALSE

\* client.py:52, 61, 77, 85: "if not self._session"
not_logged_in(s) == s.kind = "None"

\* the course ids a caller may ask for
CourseIds == {1, 2}

\* CoursemologyClient.jobs and .courses: the guard, then the cached handler
Handler(name) ==
    /\ Quiet
    /\ IF not_logged_in(session)
       THEN /\ last' = Ended(name, "CoursemologyAPIError")
            /\ UNCHANGED handlers
       ELSE /\ last' = Ended(name, "")
            /\ handlers' = handlers \cup {name}
    /\ login' = LoginIdle
    /\ req' = ReqIdle
    /\ UNCHANGED <<now, issued, session, api_session, pkce, helpers>>

\* CoursemologyClient.course(course_id): the guard, then a new CourseAPI
Course(course_id) ==
    /\ Quiet
    /\ last' = Ended("course",
                     IF not_logged_in(session) THEN "CoursemologyAPIError" ELSE "")
    /\ login' = LoginIdle
    /\ req' = ReqIdle
    /\ UNCHANGED <<now, issued, session, handlers, api_session, pkce, helpers>>

\* CoursemologyClient.download_file up to its self._session.get(url)
DownloadFile ==
    /\ Quiet
    /\ IF not_logged_in(session)
       THEN /\ last' = Ended("download_file", "CoursemologyAPIError")
            /\ req' = ReqIdle
       ELSE /\ last' = Ended("download_file", "running")
            /\ req' = BeginRequest("download")
    /\ login' = LoginIdle
    /\ UNCHANGED <<now, issued, session, handlers, api_session, pkce, helpers>>

\* client.py:91-119: the file is saved, or a requests exception becomes OSError
DownloadDone ==
    /\ login.pc = "idle"
    /\ req.pc = "returned"
    /\ req.caller = "download"
    /\ req' = [req EXCEPT !.pc = "idle"]
    /\ last' = Ended("download_file",
                     IF req.result.kind # "response"
                        \/ raises_for_status(req.result.status)
                     THEN "OSError" ELSE "")
    /\ UNCHANGED <<now, issued, session, handlers, login, api_session, pkce, helpers>>

\* base.py:16, HttpMethod
HttpMethods == {"GET", "POST", "PATCH", "PUT", "DELETE"}

\* the headers a handler passes to _request: none, or its own
\* (api/course/submissions.py:201)
CallerHeaders == { << >>, ("x-api-version" :> "2.1") }

\* a plausible slip: only POST is taken to change state
is_state_changing_post_only(method) == method = "POST"

\* base.py:119
is_state_changing(method) == method \in {"POST", "PATCH", "PUT", "DELETE"}

\* base.py:118-123: the headers _request sends, from the method, the CSRF
\* token of the session (base.py:39-41) and the caller's headers
request_headers(method, csrf_token, headers) ==
    IF is_state_changing(method) /\ csrf_token # ""
    THEN ("X-CSRF-Token" :> csrf_token) @@ headers
    ELSE headers

\* a handler obtained from the client calls _request, which prepares the
\* headers and sends the request through the session (base.py:118-134)
ApiRequest(method, headers) ==
    /\ Quiet
    /\ ~not_logged_in(session)
    /\ last' = Ended("request", "running")
    /\ req' = [BeginRequest("api") EXCEPT
                 !.method = method,
                 !.headers = request_headers(method, session.csrf_token, headers)]
    /\ login' = LoginIdle
    /\ UNCHANGED <<now, issued, session, handlers, api_session, pkce, helpers>>

\* the bodies the API host answers a handler's request with
ApiBodies ==
    { Body(k, Absent, Absent, "") : k \in {"empty", "text"} }
    \cup { Body("object", Absent, Absent, sh) : sh \in {"Job", "Other"} }

\* base.py:134-135: the response goes to _handle_response, an exception of
\* the session passes through
ApiDone ==
    /\ login.pc = "idle"
    /\ req.pc = "returned"
    /\ req.caller = "api"
    /\ req' = [req EXCEPT !.pc = "idle"]
    /\ \E b \in ApiBodies, m \in ResponseModels :
         last' = Ended("request",
                       IF req.result.kind # "response" THEN req.result.kind
                       ELSE handle_response(req.result.status, b, m).raised)
    /\ UNCHANGED <<now, issued, session, handlers, login, api_session, pkce, helpers>>

----------------------------------------------------------------------------
(* JobsAPI.wait_for_completion (jobs.py:32-70) *)

\* Job.status as the server reports it (models/jobs.py:13)
JobStatuses == {"submitted", "running", "completed", "errored"}
Terminal == {"completed", "errored"}

\* the statuses a job may move to from status s
JobSuccessors(s) ==
    IF s = "submitted" THEN {"running", "completed", "errored"}
    ELSE IF s = "running" THEN {"completed", "errored"}
    ELSE {}

\* a plausible slip: the bound of the loop is inclusive
loop_continues_inclusive(t, start_time, timeout) == t - start_time <= timeout

\* jobs.py:57, the condition of the while loop
loop_continues(t, start_time, timeout) == t - start_time < timeout

\* a plausible slip: any terminal status ends the wait with a return
poll_verdict_any_terminal(status) ==
    IF status \in Terminal THEN "return" ELSE "sleep"

\* jobs.py:61-68: what one observed status leads to
poll_verdict(status) ==
    IF status = "completed" THEN "return"
    ELSE IF status = "errored" THEN "raise"
    ELSE "sleep"

NoJobResult == [kind |-> "running", status |-> ""]

\* the activation of wait_for_completion with the job it waits for: the
\* job's status on the server and the time it reached a terminal status,
\* the polls made (start, end and observed status of each fetch_status), and
\* the seconds of the current sleep still to pass
WaitIdle ==
    [pc |-> "idle", timeout |-> 0, poll_interval |-> 0, start_time |-> 0,
     job |-> [status |-> "submitted", finished_at |-> -1],
     polls |-> << >>, remaining |-> 0, result |-> NoJobResult]

\* the job moves on while the client waits
JobProgress(s) ==
    /\ wait.pc \in {"test", "fetch", "sleep"}
    /\ s \in JobSuccessors(wait.job.status)
    /\ wait' = [wait EXCEPT !.job = [status |-> s,
                                     finished_at |-> IF s \in Terminal THEN now ELSE -1]]
    /\ UNCHANGED <<now, issued, session, handlers, login, api_session, req, last,
                   pkce, resp, form, apicall>>

\* jobs.py:57 and 70: the loop condition, and TimeoutError when it fails
LoopTest ==
    /\ wait.pc = "test"
    /\ IF loop_continues(now, wait.start_time, wait.timeout)
       THEN wait' = [wait EXCEPT !.pc = "fetch"]
       ELSE wait' = [wait EXCEPT !.pc = "done",
                                 !.result = [kind |-> "TimeoutError", status |-> ""]]
    /\ UNCHANGED <<now, issued, session, handlers, login, api_session, req, last,
                   pkce, resp, form, apicall>>

\* jobs.py:58-68: fetch_status takes d seconds and returns the job's status,
\* or raises what _get raises; then return, RuntimeError or time.sleep.
\* A sleep lasts poll_interval seconds or over seconds longer.
FetchStatus(d, returns, over) ==
    /\ wait.pc = "fetch"
    /\ d = 0 => Len(wait.polls) < MaxPolls
    /\ now' = now + d
    /\ LET status == IF returns THEN wait.job.status ELSE "raised"
           seen == [wait EXCEPT !.polls = Append(@, [at |-> now, end |-> now + d,
                                                     status |-> status])]
           verdict == poll_verdict(status)
       IN
       IF ~returns THEN
            wait' = [seen EXCEPT !.pc = "done",
                                 !.result = [kind |-> "ServerError", status |-> ""]]
       ELSE IF verdict = "return" THEN
            wait' = [seen EXCEPT !.pc = "done",
                                 !.result = [kind |-> "Job", status |-> status]]
       ELSE IF verdict = "raise" THEN
            wait' = [seen EXCEPT !.pc = "done",
                                 !.result = [kind |-> "RuntimeError", status |-> status]]
       ELSE wait' = [seen EXCEPT !.pc = "sleep",
                                 !.remaining = wait.poll_interval + over]
    /\ UNCHANGED <<issued, session, handlers, login, api_session, req, last,
                   pkce, resp, form, apicall>>

\* one second of time.sleep passes
SleepTick ==
    /\ wait.pc = "sleep"
    /\ wait.remaining > 0
    /\ now' = now + 1
    /\ wait' = [wait EXCEPT !.remaining = @ - 1]
    /\ UNCHANGED <<issued, session, handlers, login, api_session, req, last,
                   pkce, resp, form, apicall>>

\* time.sleep returns and the loop condition is next
Wake ==
    /\ wait.pc = "sleep"
    /\ wait.remaining = 0
    /\ wait' = [wait EXCEPT !.pc = "test"]
    /\ UNCHANGED <<now, issued, session, handlers, login, api_session, req, last,
                   pkce, resp, form, apicall>>

----------------------------------------------------------------------------
(* build_form_data (utils.py:6-53).  A value is a record: a scalar with its *)
(* type and its str() text, or a dict, list or model with its items in      *)
(* order (k is the key or field name; the items of a list have k = "").     *)
(* A form key is the sequence of its pieces, root_key first.                *)

Leaf(t, s) == [t |-> t, s |-> s, items |-> << >>]
Branch(t, items) == [t |-> t, s |-> "", items |-> items]
Item(k, v) == [k |-> k, v |-> v]

\* scalar leaves: 'Test', 1, True, None
Scalars == {Leaf("str", "Test"), Leaf("int", "1"), Leaf("bool", "True"), Leaf("none", "None")}

\* what may sit one level down: scalars, lists of up to two scalars, and
\* dicts with one key
Inner ==
    Scalars
    \cup { Branch("list", << >>) }
    \cup { Branch("list", << Item("", a) >>) : a \in Scalars }
    \cup { Branch("list", << Item("", a), Item("", b) >>) : a \in Scalars, b \in Scalars }
    \cup { Branch("dict", << Item("a", a) >>) : a \in Scalars }

\* the data given to build_form_data: dicts and models with the keys 'name'
\* and 'details', the latter up to two levels deep
FormInputs ==
    { Branch(t, << Item("name", a), Item("details", b) >>) :
        t \in {"dict", "model"}, a \in Scalars, b \in Inner }
    \cup { Branch("dict", << Item("details", Branch(t, << Item("a", b) >>)) >>) :
             t \in {"dict", "model"}, b \in Inner }

\* utils.py:47-50: str(value), lower-cased for a bool
form_value(leaf) ==
    IF leaf.t = "bool"
    THEN Leaf("str", IF leaf.s = "True" THEN "true" ELSE "false")
    ELSE Leaf("str", leaf.s)

\* utils.py:49, and exclude_none of model_dump: a None leaves no entry
skips_none(node) == node.t = "none"

\* BaseModel.model_dump(by_alias=True, exclude_none=True)
model_dump(node) ==
    Branch("dict", SelectSeq(node.items, LAMBDA it : ~skips_none(it.v)))

\* utils.py:32-50, recurse: the form_data after current_data was visited
\* under prefix; recurse_items visits the items from position i on
RECURSIVE recurse(_, _, _)
RECURSIVE recurse_items(_, _, _, _)

recurse_items(node, i, prefix, form_data) ==
    IF i > Len(node.items) THEN form_data
    ELSE LET key == IF node.t = "list" THEN ToString(i - 1) ELSE node.items[i].k
             done == recurse(node.items[i].v, prefix \o << "[", key, "]" >>, form_data)
         IN recurse_items(node, i + 1, prefix, done)

recurse(current_data, prefix, form_data) ==
    IF current_data.t = "dict" THEN recurse_items(current_data, 1, prefix, form_data)
    ELSE IF current_data.t = "list" THEN
        IF current_data.items = << >>
        THEN ((prefix \o << "[", "]" >>) :> Leaf("str", "")) @@ form_data
        ELSE recurse_items(current_data, 1, prefix, form_data)
    ELSE IF current_data.t = "model" THEN recurse(model_dump(current_data), prefix, form_data)
    ELSE IF ~skips_none(current_data)
    THEN (prefix :> form_value(current_data)) @@ form_data
    ELSE form_data

\* build_form_data(data, root_key)
build_form_data(data, root_key) ==
    recurse(IF data.t = "model" THEN model_dump(data) ELSE data, << root_key >>, << >>)

FormIdle ==
    [pc |-> "idle", data |-> Branch("dict", << >>), root_key |-> "", out |-> << >>]

\* build_form_data runs on its arguments
BuildFormData ==
    /\ form.pc = "called"
    /\ form' = [form EXCEPT !.pc = "done",
                            !.out = build_form_data(form.data, form.root_key)]
    /\ UNCHANGED <<now, issued, session, handlers, login, api_session, req, last,
                   pkce, resp, wait, apicall>>

----------------------------------------------------------------------------
(* BaseAPI._request, the URL it sends to (base.py:98-108).  A URL or path   *)
(* is the sequence of its pieces, each "/" a piece of its own.              *)

\* str.rstrip('/') and str.lstrip('/')
rstrip_slash(s) ==
    SubSeq(s, 1, CHOOSE n \in 0..Len(s) :
                    /\ n = 0 \/ s[n] # "/"
                    /\ \A j \in (n + 1)..Len(s) : s[j] = "/")
lstrip_slash(s) ==
    SubSeq(s, (CHOOSE n \in 1..(Len(s) + 1) :
                    /\ n = Len(s) + 1 \/ s[n] # "/"
                    /\ \A j \in 1..(n - 1) : s[j] = "/"), Len(s))

\* a plausible slip: the prefix is applied to every path
full_path_always_prefix(prefix, path) ==
    IF prefix = << >> THEN path
    ELSE IF path = << >> THEN prefix
    ELSE prefix \o << "/" >> \o path

\* base.py:99-105: the path itself when it starts with "/", else
\* "/".join of the non-empty parts among prefix and path
full_path(prefix, path) ==
    IF path # << >> /\ path[1] = "/" THEN path
    ELSE IF prefix = << >> THEN path
    ELSE IF path = << >> THEN prefix
    ELSE prefix \o << "/" >> \o path

\* base.py:108
request_url(base_url, prefix, path) ==
    rstrip_slash(base_url) \o << "/" >> \o lstrip_slash(full_path(prefix, path))

\* the host as the caller of CoursemologyClient may write it (client.py:28)
BaseUrls ==
    { redirect_uri, redirect_uri \o << "/" >>, redirect_uri \o << "/", "/" >>,
      redirect_uri \o << "/", "api" >>, redirect_uri \o << "/", "api", "/" >> }

\* _url_prefix of BaseAPI, CoursesAPI, BaseCourseAPI and a course handler
UrlPrefixes ==
    { << >>, << "/", "courses" >> }
    \cup { << "courses", "/", ToString(c) >> : c \in CourseIds }
    \cup { << "courses", "/", ToString(c), "/", "announcements" >> : c \in CourseIds }

\* the paths handlers pass to _get, _post, ...
Paths ==
    { << >>, << "new" >>, << "users", "/", "invite" >>, << "7" >>, << "7", "/" >>,
      << "/" >>, << "/", "jobs", "/", "abc" >>, << "/", "/", "jobs" >> }

\* the params a handler passes: None, or a dict
Params(none, dict) == [none |-> none, dict |-> dict]
CallerParams ==
    { Params(TRUE, << >>), Params(FALSE, << >>), Params(FALSE, ("page" :> "2")),
      Params(FALSE, ("format" :> "csv")),
      Params(FALSE, ("format" :> "csv") @@ ("page" :> "2")) }

\* a plausible slip: format=json is set over the caller's value
prepare_params_force_json(params) ==
    ("format" :> "json") @@ (IF params.none THEN << >> ELSE params.dict)

\* base.py:110-116: the params of the request
prepare_params(params) ==
    LET dict == IF params.none THEN << >> ELSE params.dict
    IN IF "format" \in DOMAIN dict THEN dict ELSE ("format" :> "json") @@ dict

CallIdle ==
    [pc |-> "idle", base_url |-> << >>, prefix |-> << >>, path |-> << >>, url |-> << >>,
     params |-> Params(TRUE, << >>), sent_params |-> << >>]

\* _request builds the URL and the params of the request it is about to send
BuildUrl ==
    /\ apicall.pc = "called"
    /\ apicall' = [apicall EXCEPT
                     !.pc = "built",
                     !.url = request_url(apicall.base_url, apicall.prefix, apicall.path),
                     !.sent_params = prepare_params(apicall.params)]
    /\ UNCHANGED <<now, issued, session, handlers, login, api_session, req, last,
                   pkce, resp, wait, form>>

----------------------------------------------------------------------------
(* The helpers at rest *)

HelpersIdle ==
    /\ resp = RespIdle
    /\ wait = WaitIdle
    /\ form = FormIdle
    /\ apicall = CallIdle

----------------------------------------------------------------------------
(* SpecLogin: a client from its construction, logging in and being used.   *)
(* The login flow reads the clock only through OIDCTokens, so it is         *)
(* explored at one instant: a granted lifetime of ExpiryMargin seconds is   *)
(* expired at once and a longer one is not.                                 *)

NoPkce == [rnd |-> << >>, verifier |-> << >>, challenge |-> << >>]

Init ==
    /\ now = 0
    /\ issued = 0
    /\ session = None
    /\ handlers = {}
    /\ login = LoginIdle
    /\ api_session = None
    /\ req = ReqIdle
    /\ last = NoCall
    /\ pkce = NoPkce
    /\ HelpersIdle

NextLogin ==
    \/ \E p \in PkcePairs, st \in StateNonces, a \in PageAnswers : GetLoginPage(p, st, a)
    \/ \E a \in PostAnswers : PostCredentials(a)
    \/ \E a \in TokenAnswers : ExchangeCode(a)
    \/ \E c \in CsrfTokens : FinishLogin(c)
    \/ \E a \in TokenAnswers : Authorize(a)
    \/ \E s \in ApiStatuses : Send(s)
    \/ \E a \in TokenAnswers : Refresh401(a)
    \/ \E h \in {"jobs", "courses"} : Handler(h)
    \/ \E c \in CourseIds : Course(c)
    \/ DownloadFile
    \/ DownloadDone

SpecLogin == Init /\ [][NextLogin]_vars

----------------------------------------------------------------------------
(* Spec: the session of a logged-in client, used by the API handlers *)

InitSession ==
    /\ now = 0
    /\ issued = 1
    /\ \E e \in ExpiresIn, c \in CsrfTokens :
         session = [NewSession(model_validate(
                        [status |-> 200, access_token |-> 1, refresh_token |-> 101,
                         expires_in |-> e], 0))
                    EXCEPT !.csrf_token = c]
    /\ handlers = {}
    /\ login = LoginIdle
    /\ api_session = None
    /\ req = ReqIdle
    /\ last = Ended("login", "")
    /\ pkce = NoPkce
    /\ HelpersIdle

Next ==
    \/ Tick
    \/ \E m \in HttpMethods, h \in CallerHeaders : ApiRequest(m, h)
    \/ \E a \in TokenAnswers : Authorize(a)
    \/ \E s \in ApiStatuses : Send(s)
    \/ \E a \in TokenAnswers : Refresh401(a)
    \/ ApiDone

Spec == InitSession /\ [][Next]_vars

----------------------------------------------------------------------------
(* SpecPkce: _make_pkce_pair applied to the outcomes of os.urandom *)

\* os.urandom(64) outcomes, one per seed; they cover every 6-bit value
RandomBytes(seed) ==
    [i \in 1..VerifierBytes |-> (seed * (2 * i + 1) + i * i + 250 * (seed % 3)) % 256]

\* the random bytes are drawn; nothing is computed yet
InitPkce ==
    /\ now = 0
    /\ issued = 0
    /\ session = None
    /\ handlers = {}
    /\ login = LoginIdle
    /\ api_session = None
    /\ req = ReqIdle
    /\ last = NoCall
    /\ \E seed \in 1..MaxSeeds :
         pkce = [rnd |-> RandomBytes(seed), verifier |-> << >>, challenge |-> << >>]
    /\ HelpersIdle

MakePkcePair ==
    /\ pkce.verifier = << >>
    /\ pkce' = [rnd |-> pkce.rnd] @@ make_pkce_pair(pkce.rnd)
    /\ UNCHANGED <<now, issued, session, handlers, login, api_session, req, last,
                   helpers>>

NextPkce == MakePkcePair

SpecPkce == InitPkce /\ [][NextPkce]_vars

----------------------------------------------------------------------------
(* SpecResponse: _handle_response applied to the responses a host may give *)

\* status codes around the boundaries of the classes
ResponseStatuses == {200, 201, 204, 301, 399, 400, 401, 422, 499, 500, 503, 599}

InitResponse ==
    /\ now = 0
    /\ issued = 0
    /\ session = None
    /\ handlers = {}
    /\ login = LoginIdle
    /\ api_session = None
    /\ req = ReqIdle
    /\ last = NoCall
    /\ pkce = NoPkce
    /\ \E st \in ResponseStatuses, b \in Bodies, m \in ResponseModels :
         resp = [RespIdle EXCEPT !.pc = "called", !.status = st, !.body = b, !.model = m]
    /\ wait = WaitIdle
    /\ form = FormIdle
    /\ apicall = CallIdle

NextResponse == HandleResponse

SpecResponse == InitResponse /\ [][NextResponse]_vars

----------------------------------------------------------------------------
(* SpecJobs: one call of wait_for_completion while the job runs on the      *)
(* server.  SpecJobsFair adds that the call itself keeps taking steps.      *)

InitJobs ==
    /\ now = 0
    /\ issued = 0
    /\ session = None
    /\ handlers = {}
    /\ login = LoginIdle
    /\ api_session = None
    /\ req = ReqIdle
    /\ last = NoCall
    /\ pkce = NoPkce
    /\ resp = RespIdle
    /\ \E t \in 0..MaxTimeout, p \in 0..MaxPollInterval, s \in JobStatuses :
         wait = [WaitIdle EXCEPT !.pc = "test", !.timeout = t, !.poll_interval = p,
                                 !.start_time = now,
                                 !.job = [status |-> s,
                                          finished_at |-> IF s \in Terminal THEN 0 ELSE -1]]
    /\ form = FormIdle
    /\ apicall = CallIdle

WaitStep ==
    \/ LoopTest
    \/ \E d \in 0..1, r \in BOOLEAN, o \in 0..1 : FetchStatus(d, r, o)
    \/ SleepTick
    \/ Wake

NextJobs ==
    \/ WaitStep
    \/ \E s \in JobStatuses : JobProgress(s)

SpecJobs == InitJobs /\ [][NextJobs]_vars

SpecJobsFair == SpecJobs /\ WF_vars(WaitStep)

----------------------------------------------------------------------------
(* SpecForm: build_form_data applied to nested data *)

InitForm ==
    /\ now = 0
    /\ issued = 0
    /\ session = None
    /\ handlers = {}
    /\ login = LoginIdle
    /\ api_session = None
    /\ req = ReqIdle
    /\ last = NoCall
    /\ pkce = NoPkce
    /\ resp = RespIdle
    /\ wait = WaitIdle
    /\ \E d \in FormInputs, r \in {"item", "course"} :
         form = [FormIdle EXCEPT !.pc = "called", !.data = d, !.root_key = r]
    /\ apicall = CallIdle

NextForm == BuildFormData

SpecForm == InitForm /\ [][NextForm]_vars

----------------------------------------------------------------------------
(* SpecRequest: _request called by a handler with a path *)

InitRequest ==
    /\ now = 0
    /\ issued = 0
    /\ session = None
    /\ handlers = {}
    /\ login = LoginIdle
    /\ api_session = None
    /\ req = ReqIdle
    /\ last = NoCall
    /\ pkce = NoPkce
    /\ resp = RespIdle
    /\ wait = WaitIdle
    /\ form = FormIdle
    /\ \E b \in BaseUrls, pre \in UrlPrefixes, pa \in Paths, par \in CallerParams :
         apicall = [CallIdle EXCEPT !.pc = "called", !.base_url = b, !.prefix = pre,
                                    !.path = pa, !.params = par]

NextRequest == BuildUrl

SpecRequest == InitRequest /\ [][NextRequest]_vars

----------------------------------------------------------------------------
(* Properties of CoursemologySession.request and OIDCBearerAuth (Spec) *)

\* the send entries of the running or last call, in order
Sends == SelectSeq(req.log, LAMBDA ev : ev.e = "send")

\* positions in the log
SendAt(k) ==
    CHOOSE i \in 1..Len(req.log) :
        /\ req.log[i].e = "send"
        /\ Cardinality({j \in 1..i : req.log[j].e = "send"}) = k
Refresh401At == CHOOSE i \in 1..Len(req.log) : req.log[i].trigger = "401"
HasRefresh401 == \E i \in 1..Len(req.log) : req.log[i].trigger = "401"

\* the call has come back to its caller
CallEnded == req.caller # "none" /\ req.pc \in {"returned", "idle"}

\* every refresh made after the first send succeeded
RefreshesAfterFirstSendOk ==
    \A i \in (SendAt(1) + 1)..Len(req.log) :
        req.log[i].e = "refresh" => req.log[i].ok

\* C1 as stated: whenever the first response is a 401 the request is re-sent
\* exactly once and the second response is what the caller gets.
C1_Original ==
    (CallEnded /\ Len(Sends) >= 1 /\ Sends[1].status = 401)
        => /\ Len(Sends) = 2
           /\ req.result = Response(Sends[2].status)

\* C1 (amended): a call never sends more than twice.  After a first response
\* of 401 a refresh is made at once, whatever the own expiry tracking said;
\* if every refresh of the retry succeeds the request is re-sent exactly once
\* and the second response is returned whatever its status, and if a refresh
\* fails its HTTPError reaches the caller and nothing is re-sent.  After any
\* other first response nothing is re-sent.
C1_RetryOnce ==
    /\ Len(Sends) <= 2
    /\ (CallEnded /\ Len(Sends) >= 1 /\ Sends[1].status = 401) =>
          /\ Len(req.log) > SendAt(1)
          /\ req.log[SendAt(1) + 1].e = "refresh"
          /\ req.log[SendAt(1) + 1].trigger = "401"
          /\ IF RefreshesAfterFirstSendOk
             THEN Len(Sends) = 2 /\ req.result = Response(Sends[2].status)
             ELSE Len(Sends) = 1 /\ req.result = Raised("HTTPError")
    /\ (CallEnded /\ Len(Sends) >= 1 /\ Sends[1].status # 401) =>
          Len(Sends) = 1 /\ req.result = Response(Sends[1].status)

\* a call whose token was not expired by the own tracking was answered 401,
\* refreshed, re-sent, and returned the second 401
C1_Witness ==
    /\ CallEnded
    /\ Len(Sends) = 2
    /\ Sends[1].status = 401
    /\ req.log[1].e = "auth" /\ ~req.log[1].expired
    /\ req.result = Response(401)

\* C2: when the auth handler has authorized a request, the header is the
\* session's stored access token; if it found the token expired, a successful
\* refresh stands between its check and the send and the header is the token
\* that refresh returned; if it did not, no refresh was made.  A refresh that
\* fails ends the call: nothing is sent after it.
C2_RefreshBeforeSend ==
    /\ \A i \in 1..Len(req.log) :
          (req.log[i].e = "refresh" /\ ~req.log[i].ok) =>
              i = Len(req.log) /\ req.result = Raised("HTTPError")
    /\ req.pc = "send" =>
        LET n == Len(req.log)
            a == CHOOSE i \in 1..n :
                    req.log[i].e = "auth" /\ \A j \in (i + 1)..n : req.log[j].e # "auth"
        IN  /\ req.Authorization = session.auth.tokens.access_token
            /\ IF req.log[a].expired
               THEN /\ n = a + 1
                    /\ req.log[n].e = "refresh"
                    /\ req.log[n].trigger = "expired"
                    /\ req.log[n].ok
                    /\ req.Authorization = req.log[n].token
               ELSE /\ n = a
                    /\ req.Authorization = req.log[a].token

\* a request is about to go out with the token of a refresh made on expiry
C2_Witness ==
    /\ req.pc = "send"
    /\ Len(req.log) = 2
    /\ req.log[1].expired
    /\ req.log[2].e = "refresh" /\ req.log[2].ok
    /\ req.Authorization = req.log[2].token
    /\ req.Authorization > 1

\* C3: the auth handler finds the token expired exactly when the clock is at
\* or past obtained_at + expires_in - 60.
C3_ExpiredExactly ==
    [][ (req.pc = "authorize" /\ req'.pc # "authorize") =>
            LET ev == req'.log[Len(req.log) + 1]
                tk == session.auth.tokens
            IN  /\ ev.e = "auth"
                /\ ev.expired <=> (now >= tk.obtained_at + tk.expires_in - ExpiryMargin) ]_vars

\* one call saw a token that was not yet expired and one that was
C3_Witness ==
    /\ \E i \in 1..Len(req.log) : req.log[i].e = "auth" /\ req.log[i].expired
    /\ \E i \in 1..Len(req.log) : req.log[i].e = "auth" /\ ~req.log[i].expired

\* C4 as stated: the retried request carries the token returned by the
\* refresh that the 401 triggered.
C4_Original ==
    Len(Sends) = 2 => Sends[2].token = req.log[Refresh401At].token

\* C4 (amended): the retried request carries the token returned by the last
\* refresh made before it, which is the refresh the 401 triggered or, when
\* that token is already expired by the own tracking, the refresh the auth
\* handler makes right after it; it never carries the token of the rejected
\* first attempt.
C4_RetryFreshToken ==
    Len(Sends) = 2 =>
        LET r == Refresh401At
            s == SendAt(2)
        IN  /\ HasRefresh401
            /\ SendAt(1) < r /\ r < s
            /\ req.log[r].ok
            /\ req.log[s - 1].e \in {"auth", "refresh"}
            /\ IF req.log[s - 1].e = "refresh"
               THEN /\ req.log[s - 1].trigger = "expired"
                    /\ req.log[s - 1].ok
                    /\ Sends[2].token = req.log[s - 1].token
               ELSE Sends[2].token = req.log[r].token
            /\ Sends[2].token # Sends[1].token

\* the retry went out with the token of the refresh the 401 triggered
C4_Witness ==
    /\ Len(Sends) = 2
    /\ HasRefresh401
    /\ Sends[2].token = req.log[Refresh401At].token
    /\ Sends[2].token # Sends[1].token

----------------------------------------------------------------------------
(* Properties of get_api_session and of the client's guard (SpecLogin) *)

\* the steps of the running or last login that reached the network
Contacted(step) == \E i \in 1..Len(login.log) : login.log[i] = step

\* what the redirect that answered the credentials POST carries
RedirectCode == first_value(urlparse(login.postAnswer.location).query, "code")
RedirectState == first_value(urlparse(login.postAnswer.location).query, "state")

\* the login has ended with an exception
LoginRaised ==
    /\ login.pc = "idle"
    /\ last.op = "login"
    /\ last.raised \in {"RuntimeError", "HTTPError"}

\* C5: the token endpoint is contacted only if the redirect carries a
\* non-empty code and the state generated for this login; after a redirect
\* without a code or with another state the login raises, nothing is
\* exchanged and no session is built.
C5_ExchangeNeedsCodeAndState ==
    /\ Contacted("token_exchange") =>
          /\ RedirectCode \notin {NoneStr, ""}
          /\ RedirectState = login.state
    /\ ( /\ Contacted("credentials_post")
         /\ RedirectCode \in {NoneStr, ""} \/ RedirectState # login.state ) =>
          /\ LoginRaised
          /\ ~Contacted("token_exchange")
          /\ api_session.kind = "None"

\* a code was exchanged after a redirect with the code and the right state
C5_Witness ==
    /\ Contacted("token_exchange")
    /\ RedirectCode = "c1"
    /\ RedirectState = login.state

\* C6: a code is exchanged only after a redirect whose Location names the
\* redirect URI itself, that is, has its scheme and its host.
C6_Original ==
    Contacted("token_exchange") =>
        /\ urlparse(login.postAnswer.location).scheme = urlparse(redirect_uri).scheme
        /\ urlparse(login.postAnswer.location).netloc = urlparse(redirect_uri).netloc

\* C7: after any answer to the credentials POST other than 302 or 303 the
\* login has raised: no token exchange, no CSRF fetch, no session.
C7_NonRedirectFails ==
    (Contacted("credentials_post") /\ login.postAnswer.status \notin {302, 303}) =>
        /\ LoginRaised
        /\ ~Contacted("token_exchange")
        /\ ~Contacted("csrf_fetch")
        /\ api_session.kind = "None"
        /\ req = ReqIdle

\* a 301 that carried a valid code and the right state was refused
C7_Witness ==
    /\ Contacted("credentials_post")
    /\ login.postAnswer.status = 301
    /\ location_accepted(login.postAnswer.location)
    /\ RedirectCode = "c1"
    /\ RedirectState = login.state
    /\ LoginRaised

\* C8: the authorization request asks for response_type=code with the S256
\* challenge of the pair drawn for this login, and the exchange sends that
\* pair's verifier with exactly the redirect's code to the issuer's token
\* endpoint as an authorization_code grant.
C8_PkceBinding ==
    /\ Contacted("auth_page") =>
          /\ login.authReq.endpoint = issuer \o << "/protocol/openid-connect/auth" >>
          /\ login.authReq.response_type = "code"
          /\ login.authReq.code_challenge_method = "S256"
          /\ login.authReq.state = login.state
          /\ [verifier |-> login.code_verifier,
              challenge |-> login.authReq.code_challenge] \in PkcePairs
    /\ Contacted("token_exchange") =>
          /\ login.exchange.endpoint = issuer \o << "/protocol/openid-connect/token" >>
          /\ login.exchange.grant_type = "authorization_code"
          /\ login.exchange.code = RedirectCode
          /\ [verifier |-> login.exchange.code_verifier,
              challenge |-> login.authReq.code_challenge] \in PkcePairs

\* a code that came second in the query was exchanged with the verifier
C8_Witness ==
    /\ Contacted("token_exchange")
    /\ login.exchange.code = "c2"
    /\ login.exchange.code_verifier = login.code_verifier

\* the accessors of the client that need a session
Accessors == {"jobs", "courses", "course", "download_file"}

\* C10: an accessor used without a session raises CoursemologyAPIError and
\* starts no request; it raises that error only without a session; a login
\* that returns leaves a session, and a session is never taken away again.
C10_LoginGuard ==
    [][ /\ last'.raised = "CoursemologyAPIError" =>
              /\ last'.op \in Accessors
              /\ session'.kind = "None"
              /\ req' = ReqIdle
        /\ (last'.op \in Accessors /\ session'.kind = "None") =>
              last'.raised = "CoursemologyAPIError"
        /\ (last'.op = "login" /\ last'.raised = "") => session'.kind # "None"
        /\ session.kind # "None" => session'.kind # "None" ]_vars

\* download_file was refused before any login
C10_Witness ==
    /\ last = Ended("download_file", "CoursemologyAPIError")
    /\ session.kind = "None"
    /\ req = ReqIdle

----------------------------------------------------------------------------
(* Properties of _make_pkce_pair (SpecPkce) *)

B64Chars == { B64Alphabet[i] : i \in 1..64 }

\* base64url decoding: byte j is made of the 8 bits that start at bit
\* 8 * (j - 1) of the 6-bit values of the characters
b64url_decode(s) ==
    [j \in 1..((Len(s) * 6) \div 8) |->
        LET bit == (j - 1) * 8
            q   == (bit \div 6) + 1
            r   == bit % 6
            hi  == B64Index(s[q])
            lo  == IF q + 1 <= Len(s) THEN B64Index(s[q + 1]) ELSE 0
        IN ((hi * 64 + lo) \div (IF r = 0 THEN 16 ELSE IF r = 2 THEN 4 ELSE 1)) % 256]

\* C9: the verifier is the unpadded URL-safe base64 text of the 64 random
\* bytes, and the challenge is the unpadded URL-safe base64 text of the
\* SHA-256 digest of the verifier's ASCII bytes.
C9_PkcePair ==
    pkce.verifier # << >> =>
        /\ Len(pkce.rnd) = VerifierBytes
        /\ \A i \in 1..Len(pkce.verifier) : pkce.verifier[i] \in B64Chars
        /\ Len(pkce.verifier) = (8 * VerifierBytes + 5) \div 6
        /\ b64url_decode(pkce.verifier) = pkce.rnd
        /\ \A i \in 1..Len(pkce.challenge) : pkce.challenge[i] \in B64Chars
        /\ Len(pkce.challenge) = (8 * DigestBytes + 5) \div 6
        /\ b64url_decode(pkce.challenge) = sha256_digest(encode_ascii(pkce.verifier))

\* a pair whose verifier uses both characters that differ from plain base64
C9_Witness ==
    /\ pkce.verifier # << >>
    /\ \E i \in 1..Len(pkce.verifier) : pkce.verifier[i] = "-"
    /\ \E i \in 1..Len(pkce.verifier) : pkce.verifier[i] = "_"

----------------------------------------------------------------------------
(* Properties of the login as a whole (SpecLogin) *)

\* the requests of one login, in the order get_api_session makes them
LoginOrder == << "auth_page", "credentials_post", "token_exchange", "csrf_fetch" >>

IsPrefix(s, t) == Len(s) <= Len(t) /\ SubSeq(t, 1, Len(s)) = s

\* the client's session is given a value while login runs
SessionHandedOver == session' # session /\ login.pc # "idle"

\* C11: the steps of a login occur in the order authorization page,
\* credentials POST, token exchange, CSRF fetch; a session held by the client
\* has an OIDCBearerAuth with a token pair issued by the token endpoint and a
\* CSRF token from the csrf_token endpoint; and the session is handed to the
\* client only after all four steps, the last one answered with success.
C11_LoginOrderAndSession ==
    /\ [](/\ IsPrefix(login.log, LoginOrder)
          /\ (last = Ended("login", "") => session.kind = "CoursemologySession")
          /\ (session.kind # "None" =>
                /\ session.auth.kind = "OIDCBearerAuth"
                /\ session.auth.tokens.access_token \in 1..issued
                /\ session.auth.tokens.refresh_token
                      = 100 + session.auth.tokens.access_token
                /\ session.csrf_token \in CsrfTokens))
    /\ [][SessionHandedOver =>
            /\ login.log = LoginOrder
            /\ req.caller = "login"
            /\ Len(Sends) >= 1
            /\ req.result = Response(Sends[Len(Sends)].status)
            /\ ~raises_for_status(req.result.status)
            /\ session'.auth = api_session.auth
            /\ last' = Ended("login", "")]_vars

\* a login has returned normally after its four steps
C11_Witness ==
    /\ last = Ended("login", "")
    /\ login.log = LoginOrder
    /\ session.kind = "CoursemologySession"
    /\ session.csrf_token = "csrf-A"

\* C12 as stated: a login that fails reaches the caller of login as a
\* CoursemologyAPIError.
C12_Original ==
    (last.op = "login" /\ last.raised \notin {"", "running"})
        => last.raised \in CoursemologyAPIErrors

----------------------------------------------------------------------------
(* Properties of a handler's request (Spec) and of _handle_response         *)
(* (SpecResponse)                                                           *)

\* C13 as stated: every failure of a request made through a handler is
\* raised as a CoursemologyAPIError or a subclass of it.
C13_Original ==
    (last.op = "request" /\ last.raised \notin {"", "running"})
        => last.raised \in CoursemologyAPIErrors

\* the api_errors the claim describes: the 'errors' value of a JSON object,
\* or else (no such key, null or empty) its 'error' value, None without both
ExpectedApiErrors(body) ==
    IF body.kind # "object" THEN NoneStr
    ELSE IF body.errors \notin {Absent, NoneStr, "[]"} THEN body.errors
    ELSE IF body.error # Absent THEN body.error
    ELSE NoneStr

\* C14: a status of 400-499 raises ClientError and one of 500-599 raises
\* ServerError, each carrying the status code and, for a JSON object, its
\* 'errors' value or else its 'error' value as api_errors; a status below 400
\* raises neither because of the status.
C14_ErrorClasses ==
    resp.pc = "done" =>
        /\ (400 <= resp.status /\ resp.status <= 499) =>
              /\ resp.out.raised = "ClientError"
              /\ resp.out.status_code = resp.status
              /\ resp.out.api_errors = ExpectedApiErrors(resp.body)
        /\ (500 <= resp.status /\ resp.status <= 599) =>
              /\ resp.out.raised = "ServerError"
              /\ resp.out.status_code = resp.status
              /\ resp.out.api_errors = ExpectedApiErrors(resp.body)
        /\ resp.status < 400 =>
              resp.out.raised \notin {"ClientError", "ServerError", "APIError"}

\* a 422 whose JSON object has an empty 'errors' and a message under 'error'
C14_Witness ==
    /\ resp.pc = "done"
    /\ resp.status = 422
    /\ resp.body = Body("object", "[]", "E1", "Other")
    /\ resp.out.raised = "ClientError"
    /\ resp.out.api_errors = "E1"

\* C15 as stated: with a success status a body that is valid JSON is always
\* returned (validated into the model when one is given).
C15_Original ==
    (resp.pc = "done" /\ ~raises_for_status(resp.status)) =>
        /\ resp.body.kind = "empty" => resp.out = Outcome("", 0, NoneStr, ReturnedNone)
        /\ resp.body.kind = "text" => resp.out.raised = "NonJSONResponseError"
        /\ json_decodes(resp.body) =>
              /\ resp.out.raised = ""
              /\ resp.out.value = IF resp.model = NoModel
                                  THEN ReturnedJson(resp.body)
                                  ELSE ReturnedModel(resp.model, resp.body)

\* C15 (amended): with a success status an empty body returns None, a body
\* that is not JSON raises NonJSONResponseError, valid JSON is returned as it
\* is when no model is given and as the validated model when the model
\* accepts it, and valid JSON the model rejects raises the validator's
\* ValidationError instead of returning.
C15_SuccessBody ==
    (resp.pc = "done" /\ ~raises_for_status(resp.status)) =>
        /\ resp.body.kind = "empty" => resp.out = Outcome("", 0, NoneStr, ReturnedNone)
        /\ resp.body.kind = "text" =>
              /\ resp.out.raised = "NonJSONResponseError"
              /\ resp.out.status_code = resp.status
        /\ (json_decodes(resp.body) /\ resp.model = NoModel) =>
              resp.out = Outcome("", 0, NoneStr, ReturnedJson(resp.body))
        /\ (json_decodes(resp.body) /\ resp.model # NoModel) =>
              IF resp.body.kind = "object" /\ resp.body.shape = resp.model
              THEN resp.out = Outcome("", 0, NoneStr, ReturnedModel(resp.model, resp.body))
              ELSE resp.out.raised = "ValidationError"

\* a 200 whose JSON object does not fit the expected model
C15_Witness ==
    /\ resp.pc = "done"
    /\ resp.status = 200
    /\ resp.body = Body("object", Absent, Absent, "Other")
    /\ resp.model = "Job"
    /\ resp.out.raised = "ValidationError"

----------------------------------------------------------------------------
(* Properties of wait_for_completion (SpecJobs, SpecJobsFair) *)

LastPoll == wait.polls[Len(wait.polls)]

\* C16: the first poll that observes a terminal status decides the outcome:
\* a Job is returned only when a poll observed 'completed', and then the
\* returned job is 'completed'; a poll that observed 'errored' ends the wait
\* with RuntimeError; no job in another status is ever returned.
C16_PollDecides ==
    /\ \A i \in 1..(Len(wait.polls) - 1) : wait.polls[i].status \notin Terminal
    /\ (Len(wait.polls) > 0 /\ LastPoll.status \in Terminal) =>
          /\ wait.pc = "done"
          /\ LastPoll.status = "completed" =>
                wait.result = [kind |-> "Job", status |-> "completed"]
          /\ LastPoll.status = "errored" => wait.result.kind = "RuntimeError"
    /\ wait.result.kind = "Job" =>
          /\ Len(wait.polls) > 0
          /\ LastPoll.status = "completed"
          /\ wait.result.status = "completed"

\* the third poll was the first to see the job completed
C16_Witness ==
    /\ wait.pc = "done"
    /\ Len(wait.polls) = 3
    /\ wait.polls[1].status = "submitted"
    /\ wait.polls[2].status = "running"
    /\ wait.result = [kind |-> "Job", status |-> "completed"]

\* C17 as stated: a job that reached a terminal status within timeout
\* seconds of the call is never reported by TimeoutError.
C17_Original ==
    (wait.pc = "done" /\ wait.result.kind = "TimeoutError") =>
        ~(/\ wait.job.status \in Terminal
          /\ wait.job.finished_at - wait.start_time < wait.timeout)

\* C18: the call ends, in a returned Job, RuntimeError or TimeoutError when
\* every fetch returned; no poll starts at or after timeout seconds from the
\* call; and a poll starts no sooner than poll_interval seconds after the
\* one before it ended.
C18_Terminates ==
    /\ <>(wait.pc = "done")
    /\ [](/\ \A i \in 1..Len(wait.polls) :
                wait.polls[i].at - wait.start_time < wait.timeout
          /\ \A i \in 1..(Len(wait.polls) - 1) :
                wait.polls[i + 1].at >= wait.polls[i].end + wait.poll_interval
          /\ wait.pc # "done" => wait.result = NoJobResult
          /\ wait.pc = "done" =>
                \/ wait.result.kind \in {"Job", "RuntimeError", "TimeoutError"}
                \/ Len(wait.polls) > 0 /\ LastPoll.status = "raised")

\* two polls found the job unfinished and the time ran out
C18_Witness ==
    /\ wait.pc = "done"
    /\ wait.result.kind = "TimeoutError"
    /\ Len(wait.polls) = 2
    /\ wait.poll_interval > 0

----------------------------------------------------------------------------
(* Properties of build_form_data (SpecForm) *)

\* the value a form key leads to in the data, following its '[key]' and
\* '[index]' pieces from position i on; a key that leads nowhere gives a
\* leaf of type "missing", and '[]' is followed into an empty list only
RECURSIVE Walk(_, _, _)
Walk(node, key, i) ==
    IF i > Len(key) THEN node
    ELSE IF i + 1 = Len(key) THEN
        IF node.t = "list" /\ node.items = << >> THEN Leaf("emptylist", "")
        ELSE Leaf("missing", "")
    ELSE LET k == key[i + 1]
             hits == { j \in 1..Len(node.items) :
                         IF node.t = "list" THEN ToString(j - 1) = k
                         ELSE node.items[j].k = k }
         IN IF node.t \in {"dict", "model", "list"} /\ hits # {}
            THEN Walk(node.items[CHOOSE j \in hits : TRUE].v, key, i + 3)
            ELSE Leaf("missing", "")

\* the non-None scalar leaves and the empty lists of a value
RECURSIVE CountEntries(_)
RECURSIVE CountItems(_, _)
CountItems(node, i) ==
    IF i > Len(node.items) THEN 0
    ELSE CountEntries(node.items[i].v) + CountItems(node, i + 1)
CountEntries(node) ==
    IF node.t \in {"dict", "model"} THEN CountItems(node, 1)
    ELSE IF node.t = "list" THEN (IF node.items = << >> THEN 1 ELSE CountItems(node, 1))
    ELSE IF node.t = "none" THEN 0 ELSE 1

\* C19 as stated: the keys are root_key followed by one '[key]' or '[index]'
\* per level, each non-None scalar leaf yields exactly one entry holding that
\* leaf's value, a None leaf yields none and an empty list yields the single
\* entry '<prefix>[]' holding an empty string.
C19_Original ==
    form.pc = "done" =>
        /\ Cardinality(DOMAIN form.out) = CountEntries(form.data)
        /\ \A key \in DOMAIN form.out :
              /\ key[1] = form.root_key
              /\ LET leaf == Walk(form.data, key, 2) IN
                 IF leaf.t = "emptylist" THEN form.out[key] = Leaf("str", "")
                 ELSE /\ leaf.t \in {"str", "int", "bool"}
                      /\ form.out[key] = leaf

----------------------------------------------------------------------------
(* Properties of BaseAPI._request (SpecRequest) *)

\* the base URL and a path without the slashes at their meeting ends
BaseStem == rstrip_slash(apicall.base_url)
Unslashed(s) == IF s # << >> /\ s[1] = "/" THEN SubSeq(s, 2, Len(s)) ELSE s
RECURSIVE NoLeadingSlash(_)
NoLeadingSlash(s) == IF s # << >> /\ s[1] = "/" THEN NoLeadingSlash(Unslashed(s)) ELSE s

\* what follows the joining "/" in the URL
UrlRest == SubSeq(apicall.url, Len(BaseStem) + 2, Len(apicall.url))

\* C20: the URL is base_url, one "/" and the path: neither a "/" before the
\* joining one nor one after it.  A path beginning with "/" follows the base
\* URL without the handler's prefix; any other path follows the prefix and
\* one "/" (the prefix alone when the path is empty, the path alone when the
\* prefix is empty).
C20_UrlJoin ==
    apicall.pc = "built" =>
        /\ startswith(apicall.url, BaseStem \o << "/" >>)
        /\ BaseStem[Len(BaseStem)] # "/"
        /\ UrlRest # << >> => UrlRest[1] # "/"
        /\ IF apicall.path # << >> /\ apicall.path[1] = "/"
           THEN UrlRest = NoLeadingSlash(apicall.path)
           ELSE IF apicall.path = << >>
           THEN UrlRest = NoLeadingSlash(apicall.prefix)
           ELSE IF apicall.prefix = << >>
           THEN UrlRest = apicall.path
           ELSE UrlRest = NoLeadingSlash(apicall.prefix) \o << "/" >> \o apicall.path

\* a course handler asked for an absolute path on a base URL written with a
\* trailing slash
C20_Witness ==
    /\ apicall.pc = "built"
    /\ apicall.base_url = redirect_uri \o << "/" >>
    /\ apicall.prefix = << "courses", "/", "1" >>
    /\ apicall.path = << "/", "jobs", "/", "abc" >>
    /\ apicall.url = redirect_uri \o << "/", "jobs", "/", "abc" >>

----------------------------------------------------------------------------
(* Properties of the prepared request (Spec, SpecRequest) *)

\* C21: a POST, PATCH, PUT or DELETE of a handler carries an X-CSRF-Token
\* header equal to the session's CSRF token when that token is not empty, a
\* GET gets no such header, and the session's CSRF token is the one fetched
\* at login for as long as the session lives, token refreshes included.
C21_CsrfHeader ==
    /\ [](req.caller = "api" =>
            /\ (req.method \in {"POST", "PATCH", "PUT", "DELETE"}
                /\ session.csrf_token # "") =>
                  /\ "X-CSRF-Token" \in DOMAIN req.headers
                  /\ req.headers["X-CSRF-Token"] = session.csrf_token
            /\ (req.method = "GET" \/ session.csrf_token = "") =>
                  "X-CSRF-Token" \notin DOMAIN req.headers)
    /\ [][session'.csrf_token = session.csrf_token]_vars

\* a PATCH sent after the tokens were refreshed twice carries the CSRF token
C21_Witness ==
    /\ req.caller = "api"
    /\ req.method = "PATCH"
    /\ req.pc = "send"
    /\ session.auth.tokens.access_token >= 3
    /\ "X-CSRF-Token" \in DOMAIN req.headers
    /\ req.headers["X-CSRF-Token"] = "csrf-A"

\* the dict the caller's params stand for
GivenParams == IF apicall.params.none THEN << >> ELSE apicall.params.dict

\* C22: the request carries a 'format' parameter, 'json' unless the caller's
\* params have a 'format' key, whose value is then kept; every other
\* parameter of the caller is passed on unchanged and nothing else is added.
C22_FormatParam ==
    apicall.pc = "built" =>
        /\ "format" \in DOMAIN apicall.sent_params
        /\ apicall.sent_params["format"] =
              (IF "format" \in DOMAIN GivenParams THEN GivenParams["format"] ELSE "json")
        /\ DOMAIN apicall.sent_params = DOMAIN GivenParams \cup {"format"}
        /\ \A k \in DOMAIN GivenParams : apicall.sent_params[k] = GivenParams[k]

\* the caller asked for format=csv and a page, and both were sent as given
C22_Witness ==
    /\ apicall.pc = "built"
    /\ apicall.params = Params(FALSE, ("format" :> "csv") @@ ("page" :> "2"))
    /\ apicall.sent_params["format"] = "csv"
    /\ apicall.sent_params["page"] = "2"

----------------------------------------------------------------------------
(* Properties of the stored token pair (Spec) *)

\* the refresh grants of the running or last call, in order
Refreshes == SelectSeq(req.log, LAMBDA ev : ev.e = "refresh")

\* C23: the stored pair is always the whole of the latest successful token
\* response (response number issued: access token, refresh token, lifetime
\* and obtained-at time of that one response); every refresh grant presents
\* the refresh token of the latest successful response before it; a
\* successful refresh replaces the four fields together and nothing else
\* changes the stored pair.
C23_TokenPair ==
    /\ [](/\ session.auth.tokens.access_token = issued
          /\ session.auth.tokens.refresh_token = 100 + issued
          /\ \A i \in 1..Len(Refreshes) :
                Refreshes[i].presented =
                    (IF Refreshes[i].ok THEN 100 + Refreshes[i].token - 1
                     ELSE 100 + issued))
    /\ [][IF issued' # issued
          THEN \E a \in TokenAnswers :
                  /\ a.status = 200
                  /\ session'.auth.tokens = model_validate(a, now)
          ELSE session'.auth.tokens = session.auth.tokens]_vars

\* one call refreshed twice, the second grant presenting the refresh token
\* the first one returned
C23_Witness ==
    /\ Len(Refreshes) = 2
    /\ Refreshes[1].ok /\ Refreshes[2].ok
    /\ Refreshes[2].presented = 100 + Refreshes[1].token
    /\ session.auth.tokens.refresh_token = 100 + Refreshes[2].token
    /\ session.auth.tokens.obtained_at > 0

====
